---- MODULE Spec2Model ----
(***************************************************************************)
(* Model of app.py, the Oman Karate Centre WhatsApp bot: the webhook       *)
(* verification handshake, the webhook dispatcher, the lead sheet, the     *)
(* broadcast endpoint and the operator endpoints (leads, debug-leads,      *)
(* cleanup-data).                                                          *)
(*                                                                         *)
(* Python strings are modelled as sequences of one-character strings, so   *)
(* that strip, lower, split, replace, join and the digit filter are        *)
(* computed character by character as the code computes them.              *)
(***************************************************************************)
EXTENDS Integers, Sequences, FiniteSets, TLC

VARIABLES sheet, storeUp, rows, pc, req, out, appends, resp,
          bcPc, bcSegment, bcRecords, bcTargets, bcAttempts, bcSent, bcFailed,
          bcResp, cleanIn, cleanOut

vars == <<sheet, storeUp, rows, pc, req, out, appends, resp,
          bcPc, bcSegment, bcRecords, bcTargets, bcAttempts, bcSent, bcFailed,
          bcResp, cleanIn, cleanOut>>

webVars == <<pc, req, out, appends, resp>>
bcVars == <<bcPc, bcSegment, bcRecords, bcTargets, bcAttempts, bcSent, bcFailed,
           bcResp>>
cleanVars == <<cleanIn, cleanOut>>

----------------------------------------------------------------------------
(* Bounds of the model *)

MaxTextLen == 5
MaxRows == 3
MaxSheetLen == 3
MaxBodyLen == 8

----------------------------------------------------------------------------
(* Python string primitives *)

Whitespace == {" "}
Digits == {"0", "1", "2", "3", "4", "5", "6", "7", "8", "9"}
UpperCase == <<"A", "B", "C", "D", "E", "F", "G", "H", "I", "J", "K", "L", "M",
               "N", "O", "P", "Q", "R", "S", "T", "U", "V", "W", "X", "Y", "Z">>
LowerCase == <<"a", "b", "c", "d", "e", "f", "g", "h", "i", "j", "k", "l", "m",
               "n", "o", "p", "q", "r", "s", "t", "u", "v", "w", "x", "y", "z">>

lowerChar(c) ==
    IF \E i \in 1..26 : UpperCase[i] = c
    THEN LowerCase[CHOOSE i \in 1..26 : UpperCase[i] = c]
    ELSE c

lower(s) == [i \in 1..Len(s) |-> lowerChar(s[i])]

RECURSIVE lstrip(_)
lstrip(s) ==
    IF Len(s) > 0 /\ Head(s) \in Whitespace THEN lstrip(Tail(s)) ELSE s

RECURSIVE rstrip(_)
rstrip(s) ==
    IF Len(s) > 0 /\ s[Len(s)] \in Whitespace
    THEN rstrip(SubSeq(s, 1, Len(s) - 1))
    ELSE s

strip(s) == rstrip(lstrip(s))

RECURSIVE lstripZeros(_)
lstripZeros(s) ==
    IF Len(s) > 0 /\ Head(s) = "0" THEN lstripZeros(Tail(s)) ELSE s

RECURSIVE splitFrom(_, _, _)
splitFrom(s, cur, acc) ==
    IF Len(s) = 0
    THEN IF Len(cur) = 0 THEN acc ELSE Append(acc, cur)
    ELSE IF Head(s) \in Whitespace
         THEN splitFrom(Tail(s), <<>>,
                        IF Len(cur) = 0 THEN acc ELSE Append(acc, cur))
         ELSE splitFrom(Tail(s), Append(cur, Head(s)), acc)

split(s) == splitFrom(s, <<>>, <<>>)

replace(s, old, new) == [i \in 1..Len(s) |-> IF s[i] = old THEN new ELSE s[i]]

RECURSIVE join(_)
join(parts) ==
    IF Len(parts) = 0 THEN <<>>
    ELSE IF Len(parts) = 1 THEN parts[1]
    ELSE parts[1] \o <<" ">> \o join(Tail(parts))

isdigit(c) == c \in Digits

anyDigit(s) == \E i \in 1..Len(s) : isdigit(s[i])

digitsOf(s) == SelectSeq(s, isdigit)

startswith(s, p) == Len(s) >= Len(p) /\ SubSeq(s, 1, Len(p)) = p

contains(s, p) ==
    \E i \in 0..(Len(s) - Len(p)) : SubSeq(s, i + 1, i + Len(p)) = p

----------------------------------------------------------------------------
(* String constants of the program *)

Empty == <<>>
NoneValue == <<"None">>
MinValidDigits == 8
LocalNumberLen == 8
MinFullLen == 11
SendMinLen == 8
CountryCode == <<"9", "6", "8">>
Greetings == { <<"h", "i">>, <<"h", "e", "l", "l", "o">>, <<"h", "e", "y">>,
               <<"s", "t", "a", "r", "t">>, <<"m", "e", "n", "u">> }
Pending == <<"P", "e", "n", "d", "i", "n", "g">>
RegisterNow == <<"R", "e", "g", "i", "s", "t", "e", "r", " ", "N", "o", "w">>
RegisterLater == <<"R", "e", "g", "i", "s", "t", "e", "r", " ", "L", "a", "t", "e", "r">>
IdSentinels == { <<"p", "e", "n", "d", "i", "n", "g">>, <<"n", "o", "n", "e">>,
                 <<"n", "u", "l", "l">>, <<>> }
NameSentinels == { <<"p", "e", "n", "d", "i", "n", "g">>,
                   <<"u", "n", "k", "n", "o", "w", "n">>, <<"n", "o", "n", "e">> }
NamePlaceholders == { <<>>, <<"P", "e", "n", "d", "i", "n", "g">>,
                      <<"U", "n", "k", "n", "o", "w", "n">>, <<"N", "o", "n", "e">> }
VERIFY_TOKEN == <<"K", "A", "R", "A", "T", "E", "B", "0", "T">>
TokenMismatch == <<"V", "e", "r", "i", "f", "i", "c", "a", "t", "i", "o", "n", " ",
                   "t", "o", "k", "e", "n", " ", "m", "i", "s", "m", "a", "t", "c", "h">>

----------------------------------------------------------------------------
(* Outbound messages: send_whatsapp_message and the menus built on it *)

sendNumber(to) ==
    LET clean_to == digitsOf(to) IN
    IF ~startswith(clean_to, CountryCode) /\ Len(clean_to) >= SendMinLen
    THEN IF startswith(clean_to, <<"9">>)
         THEN CountryCode \o clean_to
         ELSE CountryCode \o lstripZeros(clean_to)
    ELSE clean_to

Msg(to, type, tag, name, contact) ==
    [to |-> sendNumber(to), type |-> type, tag |-> tag,
     name |-> name, contact |-> contact]

send_welcome_message_asText(to) == Msg(to, "text", "welcome_button", Empty, Empty)

send_welcome_message(to) == Msg(to, "interactive", "welcome_button", Empty, Empty)

send_main_options_list(to) == Msg(to, "interactive", "main_options_list", Empty, Empty)

send_registration_options(to) == Msg(to, "interactive", "registration_options", Empty, Empty)

TextMsg(to, tag) == Msg(to, "text", tag, Empty, Empty)

CannedIds == {"about_us", "programs", "schedule", "membership", "location",
              "contact", "offers", "events", "register_now", "register_later"}

handle_interaction_menuFallback(interaction_id, phone_number) ==
    IF interaction_id = "view_options" THEN send_main_options_list(phone_number)
    ELSE IF interaction_id = "register" THEN send_registration_options(phone_number)
    ELSE IF interaction_id \in CannedIds
         THEN TextMsg(phone_number, interaction_id)
    ELSE send_main_options_list(phone_number)

handle_interaction(interaction_id, phone_number) ==
    IF interaction_id = "view_options" THEN send_main_options_list(phone_number)
    ELSE IF interaction_id = "register" THEN send_registration_options(phone_number)
    ELSE IF interaction_id \in CannedIds
         THEN TextMsg(phone_number, interaction_id)
    ELSE TextMsg(phone_number, "didnt_understand")

----------------------------------------------------------------------------
(* The lead sheet *)

Row(name, contact, whatsapp_id, intent) ==
    [Name |-> name, Contact |-> contact, WhatsAppID |-> whatsapp_id,
     Intent |-> intent]

\* add_lead_to_sheet hands one row to sheet.append_row.  The call raises when
\* the store cannot be reached; the exception is swallowed and the sheet is
\* left as it was (see appendRows).
add_lead_to_sheet(name, contact, intent, whatsapp_id) ==
    <<Row(name, contact, whatsapp_id, intent)>>

appendRows(rs, up, calls) == IF up THEN rs \o calls ELSE rs

----------------------------------------------------------------------------
(* POST /webhook *)

NoReq == [route |-> "none", kind |-> "none", from |-> Empty, id |-> "",
          body |-> Empty, token |-> Empty, challenge |-> Empty,
          defect |-> "none", rest |-> <<>>]

TextEvent(from, body) ==
    [route |-> "POST /webhook", kind |-> "text", from |-> from, id |-> "",
     body |-> body, token |-> Empty, challenge |-> Empty,
     defect |-> "none", rest |-> <<>>]

ReplyEvent(kind, from, id) ==
    [route |-> "POST /webhook", kind |-> kind, from |-> from, id |-> id,
     body |-> Empty, token |-> Empty, challenge |-> Empty,
     defect |-> "none", rest |-> <<>>]

NoResp == [status |-> "none", code |-> 0, body |-> Empty, n |-> 0]

Json(status) == [status |-> status, code |-> 200, body |-> Empty, n |-> 0]

JsonCount(status, n) == [status |-> status, code |-> 200, body |-> Empty, n |-> n]

JsonError(status, code) == [status |-> status, code |-> code, body |-> Empty, n |-> 0]

Result(calls, msgs, status) ==
    [appends |-> calls, out |-> msgs, resp |-> Json(status)]

registrationParts_noReplace(text) == split(text)

registrationParts(text) == split(replace(text, "|", " "))

isRegistrationData(text) == anyDigit(text) /\ Len(split(text)) >= 2

\* The Intent Classifier of the specification (section 4.1): response keys in
\* declaration order, each with its keyword-sets; a set matches when all its
\* tokens are substrings of the lower-cased text, and the first key with a
\* matching set wins.  The keyword-sets hold the word of the key itself.
KeywordTable ==
    << [key |-> "about_us", sets |-> {{<<"a", "b", "o", "u", "t">>}}],
       [key |-> "programs", sets |-> {{<<"p", "r", "o", "g", "r", "a", "m", "s">>}}],
       [key |-> "schedule", sets |-> {{<<"s", "c", "h", "e", "d", "u", "l", "e">>}}],
       [key |-> "membership", sets |-> {{<<"m", "e", "m", "b", "e", "r", "s", "h", "i", "p">>}}],
       [key |-> "location", sets |-> {{<<"l", "o", "c", "a", "t", "i", "o", "n">>}}],
       [key |-> "contact", sets |-> {{<<"c", "o", "n", "t", "a", "c", "t">>}}],
       [key |-> "offers", sets |-> {{<<"o", "f", "f", "e", "r", "s">>}}],
       [key |-> "events", sets |-> {{<<"e", "v", "e", "n", "t", "s">>}}] >>

matchesKey(text, entry) ==
    \E set \in entry.sets : \A token \in set : contains(text, token)

classify(text) ==
    IF \E i \in 1..Len(KeywordTable) : matchesKey(text, KeywordTable[i])
    THEN KeywordTable[CHOOSE i \in 1..Len(KeywordTable) :
                          /\ matchesKey(text, KeywordTable[i])
                          /\ \A j \in 1..(i - 1) : ~matchesKey(text, KeywordTable[j])].key
    ELSE "none"

fallbackReply_silent(phone_number) == <<>>

fallbackReply(phone_number) == <<send_welcome_message(phone_number)>>

webhookText_withClassifier(hasSheet, phone_number, body) ==
    LET text == strip(body) IN
    IF lower(text) \in Greetings
    THEN Result(<<>>, <<send_welcome_message(phone_number)>>, "welcome_sent")
    ELSE IF classify(lower(text)) # "none"
    THEN Result(<<>>, <<TextMsg(phone_number, classify(lower(text)))>>, "reply_sent")
    ELSE IF isRegistrationData(text) /\ Len(registrationParts(text)) >= 2
    THEN LET parts == registrationParts(text)
             name == join(SubSeq(parts, 1, Len(parts) - 1))
             contact == parts[Len(parts)]
         IN Result(IF hasSheet
                   THEN add_lead_to_sheet(name, contact, RegisterNow, phone_number)
                   ELSE <<>>,
                   <<Msg(phone_number, "text", "registration_received", name, contact)>>,
                   "registered")
    ELSE Result(<<>>, fallbackReply(phone_number), "fallback_welcome_sent")

webhookText(hasSheet, phone_number, body) ==
    LET text == strip(body) IN
    IF lower(text) \in Greetings
    THEN Result(<<>>, <<send_welcome_message(phone_number)>>, "welcome_sent")
    ELSE IF isRegistrationData(text) /\ Len(registrationParts(text)) >= 2
    THEN LET parts == registrationParts(text)
             name == join(SubSeq(parts, 1, Len(parts) - 1))
             contact == parts[Len(parts)]
         IN Result(IF hasSheet
                   THEN add_lead_to_sheet(name, contact, RegisterNow, phone_number)
                   ELSE <<>>,
                   <<Msg(phone_number, "text", "registration_received", name, contact)>>,
                   "registered")
    ELSE Result(<<>>, fallbackReply(phone_number), "fallback_welcome_sent")

registerLaterLead_pendingContact(phone_number) ==
    add_lead_to_sheet(Pending, Pending, RegisterLater, phone_number)

registerLaterLead(phone_number) ==
    add_lead_to_sheet(Pending, phone_number, RegisterLater, phone_number)

webhookResult(hasSheet, message) ==
    LET phone_number == message.from IN
    IF message.kind = "list_reply"
    THEN IF message.id = "register_later"
         THEN Result(IF hasSheet THEN registerLaterLead(phone_number) ELSE <<>>,
                     <<TextMsg(phone_number, "register_later_thanks")>>,
                     "register_later_saved")
         ELSE IF message.id = "register_now"
         THEN Result(<<>>, <<TextMsg(phone_number, "register_now_prompt")>>,
                     "register_now_prompt")
         ELSE Result(<<>>, <<handle_interaction(message.id, phone_number)>>,
                     "list_handled")
    ELSE IF message.kind = "button_reply"
    THEN IF message.id = "view_options"
         THEN Result(<<>>, <<send_main_options_list(phone_number)>>, "view_options_sent")
         ELSE Result(<<>>, <<handle_interaction(message.id, phone_number)>>,
                     "button_handled")
    ELSE IF message.kind = "text"
    THEN webhookText(hasSheet, phone_number, message.body)
    ELSE Result(<<>>, <<>>, "unhandled_message_type")

\* The outer except of the handler: the fault is logged and answered with 500.
ErrorResult ==
    [appends |-> <<>>, out |-> <<>>, resp |-> JsonError("error", 500)]

\* A message lacking "from", or an interactive payload lacking its reply
\* object, raises KeyError before anything is sent.
webhookMessage(hasSheet, message) ==
    IF message.defect = "no_from" THEN ErrorResult
    ELSE IF message.kind \in {"list_reply", "button_reply"}
            /\ message.defect = "no_reply_object"
    THEN ErrorResult
    ELSE webhookResult(hasSheet, message)

RECURSIVE allMessages(_, _)
allMessages(hasSheet, messages) ==
    IF Len(messages) = 0 THEN Result(<<>>, <<>>, "no_message")
    ELSE LET h == webhookMessage(hasSheet, Head(messages))
             t == allMessages(hasSheet, Tail(messages))
         IN [appends |-> h.appends \o t.appends, out |-> h.out \o t.out,
             resp |-> h.resp]

firstMessage_all(hasSheet, messages) == allMessages(hasSheet, messages)

\* message = messages[0]: only the first message of the envelope is handled.
firstMessage(hasSheet, messages) == webhookMessage(hasSheet, messages[1])

\* The messages of the envelope: the request record carries the fields of the
\* first one, rest holds the others.
messagesOf(request) ==
    IF request.defect = "no_messages" THEN <<>> ELSE <<request>> \o request.rest

\* data["entry"][0]["changes"][0]["value"]["messages"]: an empty or missing
\* entry or changes list raises IndexError, an empty or missing messages list
\* is answered with no_message.
webhookEnvelope(hasSheet, request) ==
    IF request.defect \in {"no_entry", "no_changes"} THEN ErrorResult
    ELSE IF Len(messagesOf(request)) = 0 THEN Result(<<>>, <<>>, "no_message")
    ELSE firstMessage(hasSheet, messagesOf(request))

swallowAppendError_propagate(r, up) ==
    IF ~up /\ r.appends # <<>> THEN ErrorResult ELSE r

\* add_lead_to_sheet catches the exception of a failed append_row and returns
\* False, which the handler ignores: the rest of the handler runs unchanged.
swallowAppendError(r, up) == r

webhook ==
    /\ pc = "received"
    /\ req.route = "POST /webhook"
    /\ LET r == swallowAppendError(webhookEnvelope(sheet, req), storeUp) IN
        /\ rows' = appendRows(rows, storeUp, r.appends)
        /\ appends' = r.appends
        /\ out' = r.out
        /\ resp' = r.resp
    /\ pc' = "handled"
    /\ UNCHANGED <<sheet, storeUp, req, bcVars, cleanVars>>

----------------------------------------------------------------------------
(* GET /webhook *)

VerifyEvent(token, challenge) ==
    [route |-> "GET /webhook", kind |-> "verify", from |-> Empty, id |-> "",
     body |-> Empty, token |-> token, challenge |-> challenge,
     defect |-> "none", rest |-> <<>>]

verifyResult_noTokenCheck(token, challenge) ==
    IF challenge = NoneValue
    THEN [status |-> "view_returned_none", code |-> 500, body |-> Empty, n |-> 0]
    ELSE [status |-> "verified", code |-> 200, body |-> challenge, n |-> 0]

verifyResult(token, challenge) ==
    IF token = VERIFY_TOKEN
    THEN IF challenge = NoneValue
         THEN [status |-> "view_returned_none", code |-> 500, body |-> Empty, n |-> 0]
         ELSE [status |-> "verified", code |-> 200, body |-> challenge, n |-> 0]
    ELSE [status |-> "token_mismatch", code |-> 403, body |-> TokenMismatch, n |-> 0]

verify ==
    /\ pc = "received"
    /\ req.route = "GET /webhook"
    /\ resp' = verifyResult(req.token, req.challenge)
    /\ pc' = "handled"
    /\ UNCHANGED <<sheet, storeUp, rows, req, out, appends, bcVars, cleanVars>>

----------------------------------------------------------------------------
(* Broadcast helper functions *)

falsy(v) == v = NoneValue \/ v = Empty

fieldValue(v) ==
    LET value == strip(v) IN
    IF ~falsy(v) /\ value # Empty /\ lower(value) \notin IdSentinels
    THEN value
    ELSE NoneValue

\* Of the field names tried, a sheet row carries "WhatsApp ID" and "Contact",
\* in this order.
extract_whatsapp_id(row) ==
    IF fieldValue(row.WhatsAppID) # NoneValue
    THEN fieldValue(row.WhatsAppID)
    ELSE fieldValue(row.Contact)

extract_intent(row) == IF ~falsy(row.Intent) THEN strip(row.Intent) ELSE Empty

extract_name(row) ==
    LET name == strip(row.Name) IN
    IF ~falsy(row.Name) /\ name # Empty /\ lower(name) \notin NameSentinels
    THEN name
    ELSE Empty

is_valid_whatsapp_number(number) ==
    ~falsy(number) /\ Len(digitsOf(number)) >= MinValidDigits

clean_whatsapp_number_alwaysPrefix(number) ==
    IF falsy(number) THEN NoneValue
    ELSE LET digits == digitsOf(number) IN
         IF Len(digits) = 0 THEN NoneValue
         ELSE LET clean_number ==
                      IF startswith(digits, <<"9">>) /\ Len(digits) = LocalNumberLen
                      THEN CountryCode \o digits
                      ELSE CountryCode \o lstripZeros(digits)
              IN IF Len(clean_number) >= MinFullLen
                     /\ startswith(clean_number, CountryCode)
                 THEN clean_number
                 ELSE NoneValue

clean_whatsapp_number(number) ==
    IF falsy(number) THEN NoneValue
    ELSE LET digits == digitsOf(number) IN
         IF Len(digits) = 0 THEN NoneValue
         ELSE LET clean_number ==
                      IF ~startswith(digits, CountryCode)
                      THEN IF startswith(digits, <<"9">>)
                              /\ Len(digits) = LocalNumberLen
                           THEN CountryCode \o digits
                           ELSE CountryCode \o lstripZeros(digits)
                      ELSE digits
              IN IF Len(clean_number) >= MinFullLen
                     /\ startswith(clean_number, CountryCode)
                 THEN clean_number
                 ELSE NoneValue

should_include_lead(segment, intent, name) ==
    LET intent_lower == lower(intent) IN
    IF segment = "all" THEN TRUE
    ELSE IF segment = "register_now"
         THEN contains(intent_lower, lower(RegisterNow))
    ELSE IF segment = "register_later"
         THEN contains(intent_lower, lower(RegisterLater))
    ELSE FALSE

personalize_message(name) ==
    IF name \notin NamePlaceholders THEN name ELSE Empty

----------------------------------------------------------------------------
(* POST /api/broadcast *)

isTarget(row, segment) ==
    LET whatsapp_id == extract_whatsapp_id(row) IN
    /\ ~falsy(whatsapp_id)
    /\ is_valid_whatsapp_number(whatsapp_id)
    /\ ~falsy(clean_whatsapp_number(whatsapp_id))
    /\ should_include_lead(segment, extract_intent(row), extract_name(row))

targetOf(row) ==
    [whatsapp_id |-> clean_whatsapp_number(extract_whatsapp_id(row)),
     name |-> extract_name(row),
     intent |-> extract_intent(row),
     original_data |-> row]

RECURSIVE target_leads(_, _)
target_leads(all_records, segment) ==
    IF Len(all_records) = 0 THEN <<>>
    ELSE IF isTarget(Head(all_records), segment)
         THEN <<targetOf(Head(all_records))>>
                  \o target_leads(Tail(all_records), segment)
         ELSE target_leads(Tail(all_records), segment)

BcError(status, code) == [status |-> status, code |-> code, body |-> Empty, n |-> 0]

\* The handler up to its first send: the request is validated, the sheet is
\* read once and the recipient list is built.
BroadcastStart(hasData, segment, message) ==
    /\ pc = "idle"
    /\ bcPc = "idle"
    /\ bcSegment' = segment
    /\ bcAttempts' = <<>>
    /\ bcSent' = 0
    /\ bcFailed' = 0
    /\ IF ~hasData
       THEN /\ bcResp' = BcError("no_data", 400)
            /\ bcPc' = "done"
            /\ UNCHANGED <<bcRecords, bcTargets>>
       ELSE IF strip(message) = Empty
       THEN /\ bcResp' = BcError("empty_message", 400)
            /\ bcPc' = "done"
            /\ UNCHANGED <<bcRecords, bcTargets>>
       ELSE IF ~sheet
       THEN /\ bcResp' = BcError("sheets_unavailable", 500)
            /\ bcPc' = "done"
            /\ UNCHANGED <<bcRecords, bcTargets>>
       ELSE IF ~storeUp
       THEN /\ bcResp' = BcError("broadcast_failed", 500)
            /\ bcPc' = "done"
            /\ UNCHANGED <<bcRecords, bcTargets>>
       ELSE /\ bcRecords' = rows
            /\ bcTargets' = target_leads(rows, segment)
            /\ IF Len(target_leads(rows, segment)) = 0
               THEN /\ bcResp' = Json("no_recipients")
                    /\ bcPc' = "done"
               ELSE /\ bcResp' = NoResp
                    /\ bcPc' = "sending"
    /\ UNCHANGED <<sheet, storeUp, rows, webVars, cleanVars>>

SendOutcomes == {"ok", "rejected", "exception"}

BroadcastSend_abortOnFailure(outcome) ==
    /\ bcPc = "sending"
    /\ LET i == Len(bcAttempts) + 1
           lead == bcTargets[i]
       IN /\ bcAttempts' = Append(bcAttempts,
                 Msg(lead.whatsapp_id, "text", "broadcast",
                     personalize_message(lead.name), Empty))
          /\ IF outcome = "ok"
             THEN bcSent' = bcSent + 1 /\ bcFailed' = bcFailed
             ELSE bcFailed' = bcFailed + 1 /\ bcSent' = bcSent
          /\ IF i = Len(bcTargets) \/ outcome # "ok"
             THEN bcPc' = "done" /\ bcResp' = Json("broadcast_completed")
             ELSE bcPc' = "sending" /\ bcResp' = bcResp
    /\ UNCHANGED <<sheet, storeUp, rows, webVars, cleanVars,
                   bcSegment, bcRecords, bcTargets>>

\* One iteration of the send loop; the last iteration also builds the result.
BroadcastSend(outcome) ==
    /\ bcPc = "sending"
    /\ LET i == Len(bcAttempts) + 1
           lead == bcTargets[i]
       IN /\ bcAttempts' = Append(bcAttempts,
                 Msg(lead.whatsapp_id, "text", "broadcast",
                     personalize_message(lead.name), Empty))
          /\ IF outcome = "ok"
             THEN bcSent' = bcSent + 1 /\ bcFailed' = bcFailed
             ELSE bcFailed' = bcFailed + 1 /\ bcSent' = bcSent
          /\ IF i = Len(bcTargets)
             THEN bcPc' = "done" /\ bcResp' = Json("broadcast_completed")
             ELSE bcPc' = "sending" /\ bcResp' = bcResp
    /\ UNCHANGED <<sheet, storeUp, rows, webVars, cleanVars,
                   bcSegment, bcRecords, bcTargets>>

\* The response has been delivered; the request is over.
BroadcastReturn ==
    /\ bcPc = "done"
    /\ bcPc' = "idle"
    /\ bcSegment' = "none"
    /\ bcRecords' = <<>>
    /\ bcTargets' = <<>>
    /\ bcAttempts' = <<>>
    /\ bcSent' = 0
    /\ bcFailed' = 0
    /\ bcResp' = NoResp
    /\ UNCHANGED <<sheet, storeUp, rows, webVars, cleanVars>>

----------------------------------------------------------------------------
(* Operator endpoints: GET /api/leads, GET /api/debug-leads,               *)
(* POST /api/cleanup-data                                                  *)

OperatorEvent(route) ==
    [route |-> route, kind |-> "operator", from |-> Empty, id |-> "",
     body |-> Empty, token |-> Empty, challenge |-> Empty,
     defect |-> "none", rest |-> <<>>]

has_data(row) ==
    ~falsy(row.Name) \/ ~falsy(row.Contact) \/ ~falsy(row.WhatsAppID)
        \/ ~falsy(row.Intent)

get_leads ==
    /\ pc = "received"
    /\ req.route = "GET /api/leads"
    /\ resp' = IF ~sheet THEN JsonError("sheets_unavailable", 500)
               ELSE IF ~storeUp THEN JsonError("error", 500)
               ELSE JsonCount("leads", Cardinality({i \in 1..Len(rows) : has_data(rows[i])}))
    /\ pc' = "handled"
    /\ UNCHANGED <<sheet, storeUp, rows, req, out, appends, bcVars, cleanVars>>

debug_is_valid(row) ==
    LET clean_whatsapp_id == clean_whatsapp_number(extract_whatsapp_id(row)) IN
    IF ~falsy(clean_whatsapp_id) THEN Len(clean_whatsapp_id) >= MinFullLen ELSE FALSE

debug_leads ==
    /\ pc = "received"
    /\ req.route = "GET /api/debug-leads"
    /\ resp' = IF ~sheet THEN JsonError("sheets_unavailable", 500)
               ELSE IF ~storeUp THEN JsonError("error", 500)
               ELSE JsonCount("debug", Cardinality({i \in 1..Len(rows) : debug_is_valid(rows[i])}))
    /\ pc' = "handled"
    /\ UNCHANGED <<sheet, storeUp, rows, req, out, appends, bcVars, cleanVars>>

cleanupContact_fromContactField(row) == strip(row.Contact)

\* contact = extract_whatsapp_id(row)  ("Using same function to get contact")
cleanupContact(row) == extract_whatsapp_id(row)

needsCleanup(row) ==
    LET intent == extract_intent(row)
        contact == cleanupContact(row)
        whatsapp_id == extract_whatsapp_id(row)
    IN /\ ~falsy(intent)
       /\ contains(lower(intent), lower(RegisterLater))
       /\ ~falsy(contact)
       /\ lower(contact) = lower(Pending)
       /\ ~falsy(whatsapp_id)
       /\ lower(whatsapp_id) # lower(Pending)
       /\ is_valid_whatsapp_number(whatsapp_id)

\* sheet.update_cell(i+2, 3, whatsapp_id): column 3 is the Contact column.
update_cell(row) == [row EXCEPT !.Contact = extract_whatsapp_id(row)]

cleanedRows(records) ==
    [i \in 1..Len(records) |->
        IF needsCleanup(records[i]) THEN update_cell(records[i]) ELSE records[i]]

cleanup_data ==
    /\ pc = "received"
    /\ req.route = "POST /api/cleanup-data"
    /\ IF ~sheet
       THEN resp' = JsonError("sheets_unavailable", 500) /\ rows' = rows
       ELSE IF ~storeUp
       THEN resp' = JsonError("error", 500) /\ rows' = rows
       ELSE /\ rows' = cleanedRows(rows)
            /\ resp' = JsonCount("cleanup_completed",
                     Cardinality({i \in 1..Len(rows) : needsCleanup(rows[i])}))
    /\ pc' = "handled"
    /\ UNCHANGED <<sheet, storeUp, req, out, appends, bcVars, cleanVars>>

----------------------------------------------------------------------------
(* Inputs *)

Sender1 == <<"9", "6", "8", "9", "1", "2", "3", "4", "5", "6", "7">>
Sender2 == <<"9", "6", "8", "9", "9", "0", "0", "0", "0", "0", "1">>
Senders == {Sender1, Sender2}

TextChars == {"H", "i", "1", " ", "|"}

Texts == UNION { [1..k -> TextChars] : k \in 0..MaxTextLen }

ServerTexts == { <<" ", "H", "i">>, <<"H", " ", "1">>,
                 <<"i", " ", "|", " ", "1">>, <<"|", " ", "1">>,
                 <<"O", "f", "f", "e", "r", "s">>,
                 <<"e", "v", "e", "n", "t", "s", " ", "o", "f", "f", "e", "r", "s">> }

ReplyIds == {"view_options", "about_us", "programs", "schedule", "membership",
             "location", "contact", "offers", "events", "register",
             "register_now", "register_later", "book_trial", ""}

Tokens == {VERIFY_TOKEN, <<"K", "A", "R", "A", "T", "E">>, NoneValue}
Challenges == {<<"1", "2">>, <<"7">>, NoneValue}

OperatorRoutes == {"GET /api/leads", "GET /api/debug-leads", "POST /api/cleanup-data"}

Defects == {"no_entry", "no_changes", "no_messages", "no_from", "no_reply_object"}

\* Envelopes that lack a nested field.  The fields of the message are those of
\* a register_later selection or of a registration text, so that a handler
\* that went on regardless would send and append.
MalformedEvents ==
    { [ReplyEvent(k, Sender1, "register_later") EXCEPT !.defect = d] :
          k \in {"list_reply", "button_reply"}, d \in Defects }
        \cup { [TextEvent(Sender1, <<"H", " ", "1">>) EXCEPT !.defect = d] :
                  d \in Defects \ {"no_reply_object"} }

\* Envelopes that carry a second message.
BatchEvents ==
    { [ReplyEvent("list_reply", Sender1, "register_later")
           EXCEPT !.rest = <<ReplyEvent("list_reply", Sender2, "register_later")>>],
      [TextEvent(Sender2, <<" ", "H", "i">>)
           EXCEPT !.rest = <<TextEvent(Sender1, <<"H", " ", "1">>)>>],
      [ReplyEvent("image", Sender1, "")
           EXCEPT !.rest = <<ReplyEvent("button_reply", Sender2, "about_us")>>] }

Events ==
    { TextEvent(s, t) : s \in Senders, t \in ServerTexts }
        \cup { ReplyEvent(k, s, i) :
                   k \in {"list_reply", "button_reply"}, s \in Senders, i \in ReplyIds }
        \cup { ReplyEvent("image", s, "") : s \in Senders }
        \cup { ReplyEvent("nfm_reply", s, "") : s \in Senders }
        \cup MalformedEvents
        \cup BatchEvents
        \cup { OperatorEvent(r) : r \in OperatorRoutes }
        \cup { VerifyEvent(t, c) : t \in Tokens, c \in Challenges }

Segments == {"all", "register_now", "register_later", "vip"}
Hello == <<"H", "e", "l", "l", "o">>
Messages == {Hello, <<" ">>}

Local1 == <<"9", "1", "2", "3", "4", "5", "6", "7">>
Ahmed == <<"A", "h", "m", "e", "d">>
Sara == <<"S", "a", "r", "a">>

\* Rows of the kinds an existing sheet holds: written by this program, by its
\* earlier revisions (placeholder values) or by hand.
LegacyRows ==
    { Row(Pending, Local1, Pending, RegisterLater),
      Row(Pending, Pending, <<"p", "e", "n", "d", "i", "n", "g">>, RegisterLater),
      Row(Ahmed, Local1, Local1, RegisterNow),
      Row(Sara, Sender1, Sender1, RegisterLater),
      Row(Ahmed, <<"1", "2", "3", "4", "5">>, <<"1", "2", "3", "4", "5">>, RegisterNow) }

LegacySheet ==
    << Row(Pending, Local1, Pending, RegisterLater),
       Row(Sara, Sender1, Sender1, RegisterLater) >>

\* A row of the kind cleanup-data was written for: a Register Later lead saved
\* with the placeholder as contact.
StaleSheet == << Row(Pending, Pending, Sender1, RegisterLater) >>

Sheets == UNION { [1..k -> LegacyRows] : k \in 0..MaxSheetLen }

NumberPrefixes ==
    { <<>>, <<"+">>, <<"0">>, <<"0", "0">>, <<"9">>, <<"9", "6">>,
      <<"9", "6", "8">>, <<"+", "9", "6", "8">>, <<"0", "0", "9", "6", "8">> }
NumberChars == {"9", "0", "-"}
NumberBodies == UNION { [1..k -> NumberChars] : k \in 0..MaxBodyLen }
Numbers == { p \o b : p \in NumberPrefixes, b \in NumberBodies }

----------------------------------------------------------------------------
(* The server: requests are handled one at a time *)

\* A request arrives.
Post(ev) ==
    /\ pc = "idle"
    /\ bcPc = "idle"
    /\ Len(rows) < MaxRows
    /\ req' = ev
    /\ pc' = "received"
    /\ UNCHANGED <<sheet, storeUp, rows, out, appends, resp, bcVars, cleanVars>>

\* The response has been delivered; the request is over.
Reply ==
    /\ pc = "handled"
    /\ pc' = "idle"
    /\ req' = NoReq
    /\ out' = <<>>
    /\ appends' = <<>>
    /\ resp' = NoResp
    /\ UNCHANGED <<sheet, storeUp, rows, bcVars, cleanVars>>

\* The remote spreadsheet becomes unreachable, or reachable again.
StoreFlip ==
    /\ pc = "idle"
    /\ bcPc = "idle"
    /\ storeUp' = ~storeUp
    /\ UNCHANGED <<sheet, rows, webVars, bcVars, cleanVars>>

Quiet ==
    /\ out = <<>>
    /\ appends = <<>>
    /\ resp = NoResp
    /\ bcPc = "idle"
    /\ bcSegment = "none"
    /\ bcRecords = <<>>
    /\ bcTargets = <<>>
    /\ bcAttempts = <<>>
    /\ bcSent = 0
    /\ bcFailed = 0
    /\ bcResp = NoResp
    /\ cleanIn = Empty
    /\ cleanOut = NoneValue

Init ==
    /\ sheet \in BOOLEAN
    /\ storeUp \in BOOLEAN
    /\ rows \in {<<>>, LegacySheet, StaleSheet}
    /\ pc = "idle"
    /\ req = NoReq
    /\ Quiet

Next ==
    \/ \E ev \in Events : Post(ev)
    \/ webhook
    \/ verify
    \/ get_leads
    \/ debug_leads
    \/ cleanup_data
    \/ Reply
    \/ StoreFlip
    \/ \E d \in BOOLEAN, g \in Segments, m \in Messages : BroadcastStart(d, g, m)
    \/ \E o \in SendOutcomes : BroadcastSend(o)
    \/ BroadcastReturn

Spec == Init /\ [][Next]_vars

----------------------------------------------------------------------------
(* SpecDispatch: one webhook POST carrying any text of up to MaxTextLen    *)
(* characters, handled by a server whose sheet is still empty.             *)

InitDispatch ==
    /\ sheet \in BOOLEAN
    /\ storeUp \in BOOLEAN
    /\ rows = <<>>
    /\ pc = "received"
    /\ req \in { TextEvent(s, t) : s \in Senders, t \in Texts }
    /\ Quiet

NextDispatch == webhook

SpecDispatch == InitDispatch /\ [][NextDispatch]_vars

----------------------------------------------------------------------------
(* SpecBroadcast: broadcasts over any sheet of up to MaxSheetLen rows      *)

InitBroadcast ==
    /\ sheet \in BOOLEAN
    /\ storeUp \in BOOLEAN
    /\ rows \in Sheets
    /\ pc = "idle"
    /\ req = NoReq
    /\ Quiet

NextBroadcast ==
    \/ \E d \in BOOLEAN, g \in Segments, m \in Messages : BroadcastStart(d, g, m)
    \/ \E o \in SendOutcomes : BroadcastSend(o)
    \/ BroadcastReturn

SpecBroadcast == InitBroadcast /\ [][NextBroadcast]_vars

\* The loop is driven by the request's own thread and every send returns or
\* times out, so an iteration that can run does run.
FairBroadcast ==
    SpecBroadcast /\ WF_vars(\E o \in SendOutcomes : BroadcastSend(o))

----------------------------------------------------------------------------
(* SpecClean: clean_whatsapp_number applied to one number                  *)

Clean ==
    /\ pc = "clean"
    /\ cleanOut' = clean_whatsapp_number(cleanIn)
    /\ pc' = "cleaned"
    /\ UNCHANGED <<sheet, storeUp, rows, req, out, appends, resp, bcVars, cleanIn>>

InitClean ==
    /\ sheet = FALSE
    /\ storeUp = FALSE
    /\ rows = <<>>
    /\ pc = "clean"
    /\ req = NoReq
    /\ out = <<>>
    /\ appends = <<>>
    /\ resp = NoResp
    /\ bcPc = "idle"
    /\ bcSegment = "none"
    /\ bcRecords = <<>>
    /\ bcTargets = <<>>
    /\ bcAttempts = <<>>
    /\ bcSent = 0
    /\ bcFailed = 0
    /\ bcResp = NoResp
    /\ cleanIn \in Numbers \cup {NoneValue}
    /\ cleanOut = NoneValue

NextClean == Clean

SpecClean == InitClean /\ [][NextClean]_vars

----------------------------------------------------------------------------
(* Claims about the text branch of the dispatcher (SpecDispatch) *)

handledText == pc = "handled" /\ req.kind = "text" /\ req.defect = "none"

oneWelcomeMenu ==
    /\ Len(out) = 1
    /\ out[1].type = "interactive"
    /\ out[1].tag = "welcome_button"
    /\ out[1].to = req.from

hasGreetingToken(body) ==
    \E i \in 1..Len(split(body)) : lower(split(body)[i]) \in Greetings

allDigits(tok) == Len(tok) > 0 /\ \A i \in 1..Len(tok) : isdigit(tok[i])

hasPipe(tok) == \E i \in 1..Len(tok) : tok[i] = "|"

\* The two documented shapes of a registration text, read off its
\* whitespace-separated words: "<name tokens> <digits>" and "<name> | <digits>".
isNameDigits(body) ==
    LET w == split(body) IN
    /\ Len(w) >= 2
    /\ allDigits(w[Len(w)])
    /\ \A i \in 1..(Len(w) - 1) : ~hasPipe(w[i])

isNamePipeDigits(body) ==
    LET w == split(body) IN
    /\ Len(w) >= 3
    /\ allDigits(w[Len(w)])
    /\ w[Len(w) - 1] = <<"|">>
    /\ \A i \in 1..(Len(w) - 2) : ~hasPipe(w[i])

nameOfForm(body) ==
    LET w == split(body) IN
    IF isNamePipeDigits(body)
    THEN join(SubSeq(w, 1, Len(w) - 2))
    ELSE join(SubSeq(w, 1, Len(w) - 1))

digitsOfForm(body) == split(body)[Len(split(body))]

\* C1 (as stated): every text that contains a greeting token, whatever else
\* it contains, is answered with exactly one welcome menu and no row is
\* handed to the lead sheet.
C1_GreetingTokenAlwaysMenu ==
    (handledText /\ hasGreetingToken(req.body))
        => (oneWelcomeMenu /\ appends = <<>>)

\* C1 (amended): every text that contains a greeting token and no digit is
\* answered with exactly one welcome menu and no row is handed to the lead
\* sheet.
C1_GreetingNoDigitMenu ==
    (handledText /\ hasGreetingToken(req.body) /\ ~anyDigit(req.body))
        => (oneWelcomeMenu /\ appends = <<>> /\ rows = <<>>)

C1_Witness ==
    /\ handledText
    /\ hasGreetingToken(req.body)
    /\ ~anyDigit(req.body)
    /\ Len(split(req.body)) >= 2
    /\ resp.status = "fallback_welcome_sent"

\* C2: a text "<name tokens> <digits>" or "<name> | <digits>", with the lead
\* sheet available, appends exactly one row (name = the name tokens joined by
\* single spaces, contact = the digits, WhatsApp ID = the sender, intent =
\* Register Now) and sends one confirmation text carrying that name.
C2_RegistrationAppendsLead ==
    (/\ handledText
     /\ isNameDigits(req.body) \/ isNamePipeDigits(req.body)
     /\ sheet /\ storeUp)
        => LET name == nameOfForm(req.body)
               lead == Row(name, digitsOfForm(req.body), req.from, RegisterNow)
           IN /\ appends = <<lead>>
              /\ rows = <<lead>>
              /\ Len(out) = 1
              /\ out[1].type = "text"
              /\ out[1].tag = "registration_received"
              /\ out[1].name = name
              /\ out[1].to = req.from

C2_Witness ==
    /\ handledText
    /\ isNamePipeDigits(req.body)
    /\ sheet /\ storeUp
    /\ Len(rows) = 1
    /\ rows[1].Name = <<"H">>
    /\ rows[1].Contact = <<"1">>
    /\ rows[1].WhatsAppID = Sender2

----------------------------------------------------------------------------
(* Claims about button and list replies (Spec) *)

handledReply(kind) ==
    /\ pc = "handled"
    /\ req.route = "POST /webhook"
    /\ req.kind = kind
    /\ req.defect = "none"

RecognizedIds ==
    {"view_options", "about_us", "programs", "schedule", "membership",
     "location", "contact", "offers", "events", "register", "register_now",
     "register_later"}

\* What the register_later selection is documented to do for sender s: one row
\* whose WhatsApp ID and contact are s and whose intent is Register Later is
\* appended, and one acknowledgement text goes to s.
savedForLater(s) ==
    /\ Len(appends) = 1
    /\ appends[1].WhatsAppID = s
    /\ appends[1].Contact = s
    /\ appends[1].Intent = RegisterLater
    /\ Len(rows) >= 1
    /\ rows[Len(rows)] = appends[1]
    /\ out = <<TextMsg(s, "register_later_thanks")>>

\* C3: a ListReply register_later from sender s, with the lead sheet
\* available, appends exactly one row with WhatsApp ID s, contact s and intent
\* Register Later, and one acknowledgement text is sent to s.
C3_ListRegisterLaterSavesLead ==
    (handledReply("list_reply") /\ req.id = "register_later" /\ sheet /\ storeUp)
        => savedForLater(req.from)

C3_Witness ==
    /\ handledReply("list_reply")
    /\ req.id = "register_later"
    /\ req.from = Sender2
    /\ sheet /\ storeUp
    /\ Len(rows) >= 2
    /\ rows[Len(rows)].Contact = Sender2

\* C4: a ButtonReply register_later is dispatched as the ListReply is: with
\* the lead sheet available it appends the Register Later row with the
\* sender as contact and sends the acknowledgement text.
C4_ButtonRegisterLaterSavesLead ==
    (handledReply("button_reply") /\ req.id = "register_later" /\ sheet /\ storeUp)
        => savedForLater(req.from)

\* C5: a ButtonReply or ListReply whose id is not a recognized id is answered
\* with exactly the "didn't understand" text and no row is handed to the
\* lead sheet.
C5_UnknownIdFallback ==
    (/\ handledReply("list_reply") \/ handledReply("button_reply")
     /\ req.id \notin RecognizedIds)
        => (out = <<TextMsg(req.from, "didnt_understand")>> /\ appends = <<>>)

C5_Witness ==
    /\ handledReply("button_reply")
    /\ req.id = "book_trial"
    /\ Len(out) = 1
    /\ out[1].tag = "didnt_understand"
    /\ resp.status = "button_handled"

\* C10: the handshake answers a matching token with the challenge, and any
\* other token with status 403 and a body that is not the challenge.
C10_VerifyHandshake ==
    (pc = "handled" /\ req.route = "GET /webhook")
        => /\ (req.token = VERIFY_TOKEN /\ req.challenge # NoneValue)
                  => (resp.code = 200 /\ resp.body = req.challenge)
           /\ (req.token # VERIFY_TOKEN)
                  => (resp.code = 403 /\ resp.body # req.challenge)

C10_Witness ==
    /\ pc = "handled"
    /\ req.route = "GET /webhook"
    /\ req.token # VERIFY_TOKEN
    /\ req.token # NoneValue
    /\ req.challenge # NoneValue
    /\ resp.code = 403

----------------------------------------------------------------------------
(* Claims about the broadcast (SpecBroadcast, FairBroadcast) *)

PendingLower == <<"p", "e", "n", "d", "i", "n", "g">>

recipientOf(row) == strip(row.WhatsAppID)

recipientValid(row) ==
    /\ lower(recipientOf(row)) \notin IdSentinels
    /\ is_valid_whatsapp_number(recipientOf(row))
    /\ clean_whatsapp_number(recipientOf(row)) # NoneValue

RECURSIVE validRecipients(_)
validRecipients(records) ==
    IF Len(records) = 0 THEN <<>>
    ELSE IF recipientValid(Head(records))
         THEN <<clean_whatsapp_number(recipientOf(Head(records)))>>
                  \o validRecipients(Tail(records))
         ELSE validRecipients(Tail(records))

attemptedNumbers == [i \in 1..Len(bcAttempts) |-> bcAttempts[i].to]

\* C6: no broadcast message is sent for a row whose WhatsApp ID field is
\* "pending" (compared case-insensitively), whatever its other fields hold.
C6_PendingRecipientNeverMessaged ==
    \A i \in 1..Len(bcAttempts) :
        lower(recipientOf(bcTargets[i].original_data)) # PendingLower

\* C8: a completed broadcast with segment all has attempted a send for
\* exactly the rows whose recipient is valid, every number begins with 968
\* and has at least 11 digits, and over rows with recipients "pending",
\* "91234567", "96891234567" exactly two sends went out, both to 96891234567.
C8_SendsExactlyValidRecipients ==
    (bcPc = "done" /\ bcResp.status \in {"broadcast_completed", "no_recipients"}
        /\ bcSegment = "all")
        => /\ attemptedNumbers = validRecipients(bcRecords)
           /\ \A i \in 1..Len(bcAttempts) :
                  /\ startswith(bcAttempts[i].to, CountryCode)
                  /\ Len(bcAttempts[i].to) >= MinFullLen
           /\ (/\ Len(bcRecords) = 3
               /\ lower(recipientOf(bcRecords[1])) = PendingLower
               /\ recipientOf(bcRecords[2]) = Local1
               /\ recipientOf(bcRecords[3]) = Sender1)
                  => attemptedNumbers = <<Sender1, Sender1>>

\* C9: a started broadcast attempts each selected recipient once, in list
\* order, whatever the outcomes of the sends; it reaches its result, and
\* sent + failed equals the number of selected recipients there.
C9_Tally ==
    /\ bcSent + bcFailed = Len(bcAttempts)
    /\ Len(bcAttempts) <= Len(bcTargets)
    /\ \A i \in 1..Len(bcAttempts) : bcAttempts[i].to = bcTargets[i].whatsapp_id
    /\ (bcPc = "done" /\ bcResp.status = "broadcast_completed")
           => (Len(bcAttempts) = Len(bcTargets)
               /\ bcSent + bcFailed = Len(bcTargets))

C9_BroadcastRunsToCompletion ==
    /\ []C9_Tally
    /\ (bcPc = "sending")
           ~> (bcPc = "done" /\ bcResp.status = "broadcast_completed")

C9_Witness ==
    /\ bcPc = "done"
    /\ bcResp.status = "broadcast_completed"
    /\ Len(bcTargets) = 3
    /\ bcSent = 1
    /\ bcFailed = 2

----------------------------------------------------------------------------
(* Claims about the number normalisation (SpecClean) *)

\* C7: normalisation is idempotent: a number returned by
\* clean_whatsapp_number is returned unchanged when it is cleaned again.
C7_CleanIdempotent ==
    (pc = "cleaned" /\ cleanOut # NoneValue)
        => clean_whatsapp_number(cleanOut) = cleanOut

C7_Witness ==
    /\ pc = "cleaned"
    /\ cleanOut # NoneValue
    /\ cleanOut # cleanIn
    /\ ~startswith(digitsOf(cleanIn), CountryCode)

----------------------------------------------------------------------------
(* Claims about the webhook envelope and the handler as a whole (Spec) *)

handledPost == pc = "handled" /\ req.route = "POST /webhook"

\* C11: a webhook POST whose envelope lacks a nested field (no or empty entry
\* list, no or empty changes list, a message without sender, an interactive
\* payload without its reply object) is acknowledged without an error
\* status, and nothing is sent and nothing is appended.
C11_MalformedEnvelopeIgnored ==
    (handledPost
        /\ req.defect \in {"no_entry", "no_changes", "no_from", "no_reply_object"})
        => (resp.code = 200 /\ out = <<>> /\ appends = <<>>)

wellFormedPost == handledPost /\ req.defect = "none"

isRegisterLaterSelection == req.kind = "list_reply" /\ req.id = "register_later"

isRegistrationSubmission ==
    req.kind = "text" /\ (isNameDigits(req.body) \/ isNamePipeDigits(req.body))

\* C12: when the sheet handle is missing or the append fails while a
\* registration text or a register_later selection is handled, the
\* confirmation of the successful case is still sent and the response is not
\* an error.
C12_ConfirmationDespiteStoreFailure ==
    (wellFormedPost /\ ~(sheet /\ storeUp))
        => /\ isRegisterLaterSelection
                  => /\ out = <<TextMsg(req.from, "register_later_thanks")>>
                     /\ resp.code = 200
                     /\ resp.status = "register_later_saved"
           /\ isRegistrationSubmission
                  => /\ Len(out) = 1
                     /\ out[1].tag = "registration_received"
                     /\ out[1].name = nameOfForm(req.body)
                     /\ out[1].contact = digitsOfForm(req.body)
                     /\ out[1].to = req.from
                     /\ resp.code = 200
                     /\ resp.status = "registered"

C12_Witness ==
    /\ wellFormedPost
    /\ isRegistrationSubmission
    /\ sheet /\ ~storeUp
    /\ Len(appends) = 1
    /\ Len(out) = 1
    /\ rows = <<>>

isPlainReplyKind == req.kind \in {"text", "list_reply", "button_reply"}

\* A text that is neither a greeting nor taken as a registration.
isOtherText ==
    LET text == strip(req.body) IN
    /\ req.kind = "text"
    /\ lower(text) \notin Greetings
    /\ ~(/\ anyDigit(text)
         /\ Len(split(text)) >= 2
         /\ Len(split(replace(text, "|", " "))) >= 2)

\* C13 (as stated): every well-formed event is answered with an outbound
\* message, and an event that is neither text nor a button or list reply is
\* answered with the default welcome menu.
C13_EveryEventAnswered ==
    wellFormedPost
        => /\ Len(out) >= 1
           /\ ~isPlainReplyKind => oneWelcomeMenu

\* C13 (amended): every well-formed text, button reply or list reply is
\* answered with exactly one outbound message, a text that triggers no other
\* action with the default welcome menu; a message of any other type is
\* acknowledged as unhandled_message_type and nothing is sent.
C13_TextFallsBackToMenu ==
    wellFormedPost
        => /\ isPlainReplyKind => Len(out) = 1
           /\ isOtherText => oneWelcomeMenu
           /\ ~isPlainReplyKind
                  => (out = <<>> /\ resp.status = "unhandled_message_type"
                      /\ resp.code = 200)

C13_Witness ==
    /\ wellFormedPost
    /\ isOtherText
    /\ anyDigit(req.body)
    /\ resp.status = "fallback_welcome_sent"
    /\ Len(out) = 1

classifiedKey == classify(lower(strip(req.body)))

----------------------------------------------------------------------------
(* Claims about the lead sheet (Spec) *)

----------------------------------------------------------------------------
(* Claims about the registration gate and parser (SpecDispatch) *)

pipeOrSpaceTokens(body) == split(replace(strip(body), "|", " "))

\* C16: every non-greeting text that contains a digit and has at least two
\* tokens when split on whitespace or pipes ("Ahmed|91234567" included) is a
\* registration: with the lead sheet available a Register Now row is appended
\* and a confirmation text is sent.
C16_PipeSeparatedIsRegistration ==
    (/\ handledText
     /\ lower(strip(req.body)) \notin Greetings
     /\ anyDigit(req.body)
     /\ Len(pipeOrSpaceTokens(req.body)) >= 2
     /\ sheet /\ storeUp)
        => /\ Len(appends) = 1
           /\ appends[1].Intent = RegisterNow
           /\ Len(out) = 1
           /\ out[1].type = "text"
           /\ out[1].tag = "registration_received"

\* C17: a text taken as a registration submission (a digit, two or more
\* whitespace-separated words) of which fewer than two tokens remain once
\* pipes are replaced ("| 91234567") appends nothing and is answered with
\* the format-hint text.
C17_ParseFailureGetsFormatHint ==
    (/\ handledText
     /\ lower(strip(req.body)) \notin Greetings
     /\ anyDigit(req.body)
     /\ Len(split(req.body)) >= 2
     /\ Len(pipeOrSpaceTokens(req.body)) < 2)
        => /\ appends = <<>>
           /\ Len(out) = 1
           /\ out[1].type = "text"
           /\ out[1].tag = "format_hint"

----------------------------------------------------------------------------
(* Claims about the handler as a whole, continued (Spec) *)

isTextRegistration ==
    /\ req.kind = "text"
    /\ lower(strip(req.body)) \notin Greetings
    /\ anyDigit(req.body)
    /\ Len(split(req.body)) >= 2
    /\ Len(pipeOrSpaceTokens(req.body)) >= 2

\* C18: a webhook POST causes at most one outbound send and at most one
\* append, however many messages its envelope carries, and an append happens
\* only for a ListReply register_later or a text registration submission.
C18_AtMostOneSendOneAppend ==
    handledPost
        => /\ Len(out) <= 1
           /\ Len(appends) <= 1
           /\ appends # <<>>
                  => /\ req.defect = "none"
                     /\ isRegisterLaterSelection \/ isTextRegistration

C18_Witness ==
    /\ handledPost
    /\ Len(req.rest) = 1
    /\ req.rest[1].id = "register_later"
    /\ isRegisterLaterSelection
    /\ sheet /\ storeUp
    /\ Len(out) = 1
    /\ Len(appends) = 1
    /\ rows[Len(rows)].WhatsAppID = Sender1

====
